---- MODULE Spec2Model ----
(***************************************************************************)
(* The Home component of src/app/page.tsx: the breed catalog, the selected *)
(* breeds, the search term, the gallery images and the error slot, with    *)
(* the two asynchronous fetches (fetchBreeds, fetchImages) that feed them. *)
(*                                                                         *)
(* A JavaScript string is a sequence of UTF-16 code units (naturals), so   *)
(* that toLowerCase, includes and the default Array.prototype.sort order   *)
(* are computed and not assumed.                                           *)
(*                                                                         *)
(* One step is one run of JavaScript on the UI thread: an event handler    *)
(* with the render and the [selectedBreeds] effect it causes, or the       *)
(* continuation of an async function when its awaited promise settles.     *)
(* The answers of the two endpoints are the inputs of the continuations.   *)
(* A fetchImages invocation awaits Promise.all: it resumes once, either    *)
(* with every parsed body or at the first rejection, and reads no partial  *)
(* result, so its requests are answered in the step in which it resumes.   *)
(* The theme and the show-names switch touch none of this state.           *)
(***************************************************************************)
EXTENDS Integers, Sequences, FiniteSets, TLC

VARIABLES
    breeds,          \* useState<string[]>([])        page.tsx:53
    selectedBreeds,  \* useState<string[]>([])        page.tsx:54
    searchTerm,      \* useState("")                  page.tsx:55
    images,          \* useState<{url, breed}[]>([])  page.tsx:56
    error,           \* useState<string | null>(null) page.tsx:59
    catalogFetch,    \* the promise of fetchBreeds: Pending or the settled response
    inflight,        \* the fetchImages invocations whose Promise.all has not settled
    nmut,            \* history: number of setSelectedBreeds calls so far
    nreq,            \* history: number of image requests issued so far
    last,            \* history: the handler that ran last, with its inputs
    pair             \* history: the breed toggled once or twice in a row from a
                     \* settled state, with the selection of that state

vars == <<breeds, selectedBreeds, searchTerm, images, error, catalogFetch,
          inflight, nmut, nreq, last, pair>>

-----------------------------------------------------------------------------
(* Bounds of the model *)

\* selection mutations (toggle or random load) in one behaviour
MaxMutations == 3
\* the same, when the catalog holds the 3 breeds of a full random load or more
MaxMutationsLarge == 2
\* image requests issued in one behaviour
MaxRequests == 5

-----------------------------------------------------------------------------
(* Strings *)

\* breed names, cut to their first two letters
akita  == <<97, 107>>      \* "ak"
beagle == <<98, 101>>      \* "be"
Chow   == <<67, 104>>      \* "Ch"
husky  == <<104, 117>>     \* "hu"

null == "null"
ErrBreeds == "Error fetching breeds"
ErrImages == "Error fetching images"

\* String.prototype.toLowerCase on the ASCII range
toLowerCase(s) ==
    [i \in 1..Len(s) |-> IF s[i] >= 65 /\ s[i] <= 90 THEN s[i] + 32 ELSE s[i]]

\* String.prototype.includes: t occurs in s as a contiguous substring
includes(s, t) ==
    \E i \in 0..(Len(s) - Len(t)) : \A k \in 1..Len(t) : s[i + k] = t[k]

\* Array.prototype.includes
arrayIncludes(arr, x) == \E i \in 1..Len(arr) : arr[i] = x

\* order of the default sort comparator: by UTF-16 code units
RECURSIVE LexLess(_, _)
LexLess(a, b) ==
    IF a = <<>> THEN b # <<>>
    ELSE IF b = <<>> THEN FALSE
    ELSE IF Head(a) # Head(b) THEN Head(a) < Head(b)
    ELSE LexLess(Tail(a), Tail(b))

RECURSIVE insertSorted(_, _)
insertSorted(x, arr) ==
    IF arr = <<>> THEN <<x>>
    ELSE IF LexLess(Head(arr), x) THEN <<Head(arr)>> \o insertSorted(x, Tail(arr))
    ELSE <<x>> \o arr

\* Array.prototype.sort() without comparator
RECURSIVE sort(_)
sort(arr) == IF arr = <<>> THEN <<>> ELSE insertSorted(Head(arr), sort(Tail(arr)))

\* Array.prototype.slice(from, to), zero-based, end exclusive
slice(arr, from, to) ==
    [i \in 1..((IF to < Len(arr) THEN to ELSE Len(arr)) - from) |-> arr[from + i]]

\* decimal string of a one-digit index
indexKey(i) == <<48 + i>>

ToSet(arr) == {arr[i] : i \in 1..Len(arr)}

-----------------------------------------------------------------------------
(* HTTP responses as the code sees them *)

Pending == [kind |-> "pending"]
\* fetch() rejects: no response at all
NetworkError == [kind |-> "neterr"]
Http(status, body) == [kind |-> "http", status |-> status, body |-> body]

\* bodies: text that is not JSON, or JSON whose "message" member is given
NotJson == [json |-> FALSE]
Json(message) == [json |-> TRUE, message |-> message]
MsgObject(keys) == [type |-> "object", keys |-> keys]   \* keys in insertion order
MsgArray(items) == [type |-> "array", items |-> items]
MsgString(len) == [type |-> "string", len |-> len]
MsgUndefined == [type |-> "undefined"]

\* the status is in the 2xx range (Response.ok)
IsOk(r) == r.kind = "http" /\ r.status >= 200 /\ r.status <= 299

\* `await fetch(...)` followed by `response.json()` rejects
JsonRejects(r) == r.kind = "neterr" \/ (r.kind = "http" /\ ~r.body.json)

\* the key sequences of the breed objects the catalog endpoint may answer with
CatalogKeys ==
    { <<>>, <<beagle>>, <<beagle, akita>>, <<husky, Chow, akita>>,
      <<husky, beagle, Chow, akita>> }

CatalogResponses ==
    {NetworkError, Http(200, NotJson), Http(200, Json(MsgUndefined)),
     Http(404, Json(MsgString(2)))}
    \cup {Http(200, Json(MsgObject(k))) : k \in CatalogKeys}

\* the URLs the image endpoint hands out for one request
urlsFor(breed, id, n) == [k \in 1..n |-> [req |-> breed, gen |-> id, n |-> k]]

\* what the image endpoint may answer to the request for `breed` of invocation `id`
ImageResponses(breed, id) ==
    {NetworkError, Http(200, NotJson),
     Http(200, Json(MsgArray(urlsFor(breed, id, 3)))),
     Http(404, Json(MsgString(2)))}

-----------------------------------------------------------------------------
(* Pure parts of the handlers *)

\* Object.keys(data.message): own enumerable string keys; of a string, its indices
ObjectKeys(message) ==
    IF message.type = "object" THEN message.keys
    ELSE IF message.type = "array" THEN [i \in 1..Len(message.items) |-> indexKey(i - 1)]
    ELSE [i \in 1..message.len |-> indexKey(i - 1)]

\* Object.keys(undefined) throws a TypeError
ObjectKeysThrows(message) == message.type = "undefined"

\* filteredBreeds comparing the names as they are spelled
filteredBreeds_caseSensitive(all, term) ==
    SelectSeq(all, LAMBDA breed : includes(breed, term))

\* BreedSelector: the breeds the picker renders a checkbox for
filteredBreeds(all, term) ==
    SelectSeq(all, LAMBDA breed : includes(toLowerCase(breed), term))

\* handleBreedSelection that only ever adds
handleBreedSelection_adds(prev, breed) == Append(prev, breed)

\* the updater passed to setSelectedBreeds by handleBreedSelection
handleBreedSelection(prev, breed) ==
    IF arrayIncludes(prev, breed)
    THEN SelectSeq(prev, LAMBDA b : b # breed)
    ELSE Append(prev, breed)

\* a shuffle that draws every position independently, so with repetitions
Shuffles_drawing(arr) ==
    { [i \in 1..Len(arr) |-> arr[p[i]]] : p \in [1..Len(arr) -> 1..Len(arr)] }

\* the arrays [...breeds].sort(() => 0.5 - Math.random()) may produce: the
\* comparator is inconsistent, so the order is any permutation of the elements
Shuffles(arr) ==
    { [i \in 1..Len(arr) |-> arr[p[i]]] : p \in Permutations(1..Len(arr)) }

\* the values loadRandomBreeds may pass to setSelectedBreeds
loadRandomBreeds(all) == { slice(s, 0, 3) : s \in Shuffles(all) }

\* result.message.map throws unless message is an array
MergeThrows(results) ==
    \E i \in 1..Len(results) : results[i].body.message.type # "array"

\* the result at which the flatMap throws: the first without an array
firstThrowing(results) ==
    results[CHOOSE i \in 1..Len(results) :
              /\ results[i].body.message.type # "array"
              /\ \A k \in 1..(i - 1) : results[k].body.message.type = "array"]

\* entriesOf keeping only the first two URLs of a result
entriesOf_two(result, breed) ==
    [k \in 1..2 |-> [url |-> result.body.message.items[k], breed |-> breed]]

\* one result's entries: result.message.map(url => ({url, breed: sel[index]}))
entriesOf(result, breed) ==
    [k \in 1..Len(result.body.message.items) |->
        [url |-> result.body.message.items[k], breed |-> breed]]

\* imageResults.flatMap((result, index) => ...) over the captured selectedBreeds
RECURSIVE flatMapFrom(_, _, _)
flatMapFrom(results, sel, index) ==
    IF index > Len(results) THEN <<>>
    ELSE entriesOf(results[index], sel[index]) \o flatMapFrom(results, sel, index + 1)

\* allImages reading the selection of the current render (undefined past its
\* end) in place of the one fetchImages closed over
allImages_current(results, sel) ==
    flatMapFrom(results,
                [i \in 1..Len(results) |->
                    IF i <= Len(selectedBreeds) THEN selectedBreeds[i] ELSE <<>>], 1)

allImages(results, sel) == flatMapFrom(results, sel, 1)

-----------------------------------------------------------------------------
(* State machine *)

\* after the first render and its effects: fetchBreeds() is in flight (64-66)
\* and the selection effect has run setImages([]) on the empty selection (71-77)
\* the breed labels of a gallery
breedLabels(imgs) == [i \in 1..Len(imgs) |-> imgs[i].breed]

\* the labels of the gallery of selection sel: each breed three times
tripled(sel) == [k \in 1..(3 * Len(sel)) |-> sel[((k - 1) \div 3) + 1]]

\* no invocation is in flight and the gallery shows the current selection
Settled == inflight = {} /\ breedLabels(images) = tripled(selectedBreeds)

\* no toggle from a settled state is being followed
NoPair == [n |-> 0]

Init ==
    /\ breeds = <<>>
    /\ selectedBreeds = <<>>
    /\ searchTerm = <<>>
    /\ images = <<>>
    /\ error = null
    /\ catalogFetch = Pending
    /\ inflight = {}
    /\ nmut = 0
    /\ nreq = 0
    /\ last = [op |-> "mount"]
    /\ pair = NoPair

\* the texts typed into the search box
SearchInputs == { <<>>, <<99, 72>> }     \* "", "cH"

\* fetchBreeds as it would be if the mount effect ran on every render: an
\* answer may arrive after the catalog was loaded
fetchBreeds_again(r) ==
    /\ catalogFetch' = r
    /\ IF JsonRejects(r) \/ ObjectKeysThrows(r.body.message)
       THEN error' = ErrBreeds /\ UNCHANGED breeds
       ELSE breeds' = sort(ObjectKeys(r.body.message)) /\ UNCHANGED error
    /\ last' = [op |-> "fetchBreeds"]
    /\ UNCHANGED <<selectedBreeds, searchTerm, images, inflight, nmut, nreq, pair>>

\* fetchBreeds resumes with the endpoint's answer r: the mount effect (64-66,
\* dependency list []) calls fetchBreeds once, so there is one answer
fetchBreeds(r) ==
    /\ catalogFetch = Pending
    /\ catalogFetch' = r
    /\ IF JsonRejects(r) \/ ObjectKeysThrows(r.body.message)
       THEN error' = ErrBreeds /\ UNCHANGED breeds
       ELSE breeds' = sort(ObjectKeys(r.body.message)) /\ UNCHANGED error
    /\ last' = [op |-> "fetchBreeds"]
    /\ UNCHANGED <<selectedBreeds, searchTerm, images, inflight, nmut, nreq, pair>>

\* the fetchImages invocation of the render in which selectedBreeds = sel: it
\* closes over sel and has issued one request per selected breed, 3 images each
newInvocation(id, sel) ==
    [id |-> id, sel |-> sel,
     req |-> [i \in 1..Len(sel) |-> [breed |-> sel[i], count |-> 3]]]

\* useEffectSelected without the length test: fetchImages on every change
useEffectSelected_noguard(sel) ==
    /\ inflight' = inflight \cup {newInvocation(nmut', sel)}
    /\ nreq' = nreq + Len(sel)
    /\ UNCHANGED images

\* the effect as it would be if it did not call fetchImages while an
\* invocation is in flight
useEffectSelected_debounced(sel) ==
    IF Len(sel) > 0
    THEN IF inflight = {}
         THEN /\ inflight' = inflight \cup {newInvocation(nmut', sel)}
              /\ nreq' = nreq + Len(sel)
              /\ UNCHANGED images
         ELSE UNCHANGED <<images, inflight, nreq>>
    ELSE /\ images' = <<>>
         /\ UNCHANGED <<inflight, nreq>>

\* the effect as it would be without its else branch: an empty selection
\* leaves the gallery as it was
useEffectSelected_keeps(sel) ==
    IF Len(sel) > 0
    THEN /\ inflight' = inflight \cup {newInvocation(nmut', sel)}
         /\ nreq' = nreq + Len(sel)
         /\ UNCHANGED images
    ELSE UNCHANGED <<images, inflight, nreq>>

\* the effect on [selectedBreeds], run by the render that follows a
\* setSelectedBreeds (every updater of the component returns a new array)
useEffectSelected(sel) ==
    IF Len(sel) > 0
    THEN /\ inflight' = inflight \cup {newInvocation(nmut', sel)}
         /\ nreq' = nreq + Len(sel)
         /\ UNCHANGED images
    ELSE /\ images' = <<>>
         /\ UNCHANGED <<inflight, nreq>>

\* the bounds leave room for a mutation that sets the selection to sel
WithinBounds(sel) ==
    /\ nmut < (IF Len(breeds) >= 3 THEN MaxMutationsLarge ELSE MaxMutations)
    /\ nreq + Len(sel) <= MaxRequests

\* a checkbox of the picker is clicked
ToggleBreed(breed) ==
    /\ arrayIncludes(filteredBreeds(breeds, searchTerm), breed)
    /\ WithinBounds(handleBreedSelection(selectedBreeds, breed))
    /\ selectedBreeds' = handleBreedSelection(selectedBreeds, breed)
    /\ nmut' = nmut + 1
    /\ useEffectSelected(selectedBreeds')
    /\ last' = [op |-> "toggle", breed |-> breed, before |-> selectedBreeds,
                twice |-> (last.op = "toggle" /\ last.breed = breed),
                origin |-> IF last.op = "toggle" /\ last.breed = breed
                           THEN last.before ELSE selectedBreeds]
    /\ pair' = IF pair.n = 1 /\ pair.breed = breed THEN [pair EXCEPT !.n = 2]
               ELSE IF Settled THEN [n |-> 1, breed |-> breed, origin |-> selectedBreeds]
               ELSE NoPair
    /\ UNCHANGED <<breeds, searchTerm, error, catalogFetch>>

\* LoadRandomBreeds adding the sample to the selection
LoadRandomBreeds_adds(randomBreeds) ==
    /\ WithinBounds(selectedBreeds \o randomBreeds)
    /\ selectedBreeds' = selectedBreeds \o randomBreeds
    /\ nmut' = nmut + 1
    /\ useEffectSelected(selectedBreeds')
    /\ last' = [op |-> "random", before |-> selectedBreeds]
    /\ pair' = NoPair
    /\ UNCHANGED <<breeds, searchTerm, error, catalogFetch>>

\* the "Load Random Breeds" button is clicked
LoadRandomBreeds(randomBreeds) ==
    /\ WithinBounds(randomBreeds)
    /\ selectedBreeds' = randomBreeds
    /\ nmut' = nmut + 1
    /\ useEffectSelected(selectedBreeds')
    /\ last' = [op |-> "random", before |-> selectedBreeds]
    /\ pair' = NoPair
    /\ UNCHANGED <<breeds, searchTerm, error, catalogFetch>>

\* handleSearch as it would be if the effect also depended on searchTerm
handleSearch_refetches(value) ==
    /\ searchTerm' = toLowerCase(value)
    /\ nreq + Len(selectedBreeds) <= MaxRequests
    /\ UNCHANGED <<breeds, selectedBreeds, error, catalogFetch, nmut, pair>>
    /\ useEffectSelected(selectedBreeds)
    /\ last' = [op |-> "search", value |-> value]

\* the search box changes: handleSearch (136-138) stores the lower-cased
\* input; selectedBreeds keeps its identity, so the effect (71-77) does not run
handleSearch(value) ==
    /\ searchTerm' = toLowerCase(value)
    /\ last' = [op |-> "search", value |-> value]
    /\ UNCHANGED <<breeds, selectedBreeds, images, error, catalogFetch, inflight, nmut,
                   nreq, pair>>

\* the ways the requests of invocation b, from the i-th on, may all be
\* answered with bodies that parse
RECURSIVE AnswersFrom(_, _)
AnswersFrom(b, i) ==
    IF i > Len(b.req) THEN {<<>>}
    ELSE { <<r>> \o rest :
             r \in { x \in ImageResponses(b.req[i].breed, b.id) : ~JsonRejects(x) },
             rest \in AnswersFrom(b, i + 1) }

\* FetchImagesFulfils as it would be if fetchImages did not resume while the
\* error is set
FetchImagesFulfils_unlessError(b, results) ==
    /\ error = null
    /\ b \in inflight
    /\ inflight' = inflight \ {b}
    /\ IF MergeThrows(results)
       THEN /\ error' = ErrImages
            /\ UNCHANGED images
            /\ last' = [op |-> "catchImages", id |-> b.id, before |-> images,
                        failed |-> firstThrowing(results)]
       ELSE /\ images' = allImages(results, b.sel)
            /\ UNCHANGED error
            /\ last' = [op |-> "setImages", id |-> b.id, sel |-> b.sel,
                        results |-> results]
    /\ UNCHANGED <<breeds, selectedBreeds, searchTerm, catalogFetch, nmut, nreq, pair>>

\* every request of b is answered with a body that parses: Promise.all
\* fulfils and fetchImages resumes at the flatMap (113-116)
FetchImagesFulfils(b, results) ==
    /\ b \in inflight
    /\ inflight' = inflight \ {b}
    /\ IF MergeThrows(results)
       THEN /\ error' = ErrImages
            /\ UNCHANGED images
            /\ last' = [op |-> "catchImages", id |-> b.id, before |-> images,
                        failed |-> firstThrowing(results)]
       ELSE /\ images' = allImages(results, b.sel)
            /\ UNCHANGED error
            /\ last' = [op |-> "setImages", id |-> b.id, sel |-> b.sel,
                        results |-> results]
    /\ UNCHANGED <<breeds, selectedBreeds, searchTerm, catalogFetch, nmut, nreq, pair>>

\* FetchImagesRejects with a catch block that also clears the gallery
FetchImagesRejects_clears(b, j, r) ==
    /\ b \in inflight
    /\ JsonRejects(r)
    /\ inflight' = inflight \ {b}
    /\ error' = ErrImages
    /\ images' = <<>>
    /\ last' = [op |-> "catchImages", id |-> b.id, before |-> images, failed |-> r]
    /\ UNCHANGED <<breeds, selectedBreeds, searchTerm, catalogFetch, nmut, nreq, pair>>

\* FetchImagesRejects with a catch block that shows the images of the
\* requests before the failed one
FetchImagesRejects_partial(b, j, r) ==
    /\ b \in inflight
    /\ JsonRejects(r)
    /\ inflight' = inflight \ {b}
    /\ error' = ErrImages
    /\ images' = allImages([i \in 1..(j - 1) |->
                     Http(200, Json(MsgArray(urlsFor(b.req[i].breed, b.id, 3))))], b.sel)
    /\ last' = [op |-> "catchImages", id |-> b.id, before |-> images, failed |-> r]
    /\ UNCHANGED <<breeds, selectedBreeds, searchTerm, catalogFetch, nmut, nreq, pair>>

\* request j of b is the first to fail, in fetch() or in res.json():
\* Promise.all rejects at once, whatever becomes of the other requests, and
\* the catch block runs (117-120)
FetchImagesRejects(b, j, r) ==
    /\ b \in inflight
    /\ JsonRejects(r)
    /\ inflight' = inflight \ {b}
    /\ error' = ErrImages
    /\ last' = [op |-> "catchImages", id |-> b.id, before |-> images, failed |-> r]
    /\ UNCHANGED <<breeds, selectedBreeds, searchTerm, images, catalogFetch, nmut, nreq,
                   pair>>

Next ==
    \/ \E r \in CatalogResponses : fetchBreeds(r)
    \/ \E breed \in ToSet(breeds) : ToggleBreed(breed)
    \/ \E s \in loadRandomBreeds(breeds) : LoadRandomBreeds(s)
    \/ \E value \in SearchInputs : handleSearch(value)
    \/ \E b \in inflight : \E results \in AnswersFrom(b, 1) :
          FetchImagesFulfils(b, results)
    \/ \E b \in inflight : \E j \in 1..Len(b.req) :
          \E r \in ImageResponses(b.req[j].breed, b.id) :
             FetchImagesRejects(b, j, r)

Spec == Init /\ [][Next]_vars

-----------------------------------------------------------------------------
(* Properties *)

Min(a, b) == IF a < b THEN a ELSE b
NoDuplicates(arr) == \A i, j \in 1..Len(arr) : i # j => arr[i] # arr[j]

\* a response the code treats as a failed fetch: fetch() or json() rejects, or
\* the parsed body has no array under "message"
FetchFailed(r) == JsonRejects(r) \/ r.body.message.type # "array"

\* C1: in every reachable state every gallery entry is labelled with a breed
\* that is currently selected.
GalleryWithinSelection ==
    \A i \in 1..Len(images) : arrayIncludes(selectedBreeds, images[i].breed)

\* C2: once every issued recompute has resolved successfully (nothing in
\* flight, no error ever raised) the gallery's breed labels are exactly the
\* breeds of the current, non-empty selection, also when two selections
\* followed each other before the first one's responses arrived.
QuiescentGalleryIsLatest ==
    (inflight = {} /\ error = null /\ selectedBreeds # <<>>)
        => ToSet(breedLabels(images)) = ToSet(selectedBreeds)

\* C3: a fetchImages invocation commits to the gallery only when no selection
\* mutation happened since it started: every setImages(allImages) is done by
\* the invocation issued by the latest mutation.
CommitOnlyByLatest ==
    last.op = "setImages" => last.id = nmut

\* C4: when a request of an invocation fails (fetch or json() rejects, or
\* the body has no image array), the invocation leaves the gallery exactly as
\* it was and sets the error; an invocation that commits had no failed request.
FailedBatchKeepsGallery ==
    /\ last.op = "catchImages" =>
          /\ FetchFailed(last.failed)
          /\ images = last.before
          /\ error = ErrImages
    /\ last.op = "setImages" =>
          \A i \in 1..Len(last.results) : ~FetchFailed(last.results[i])

\* C4 witness: an invocation failed while the gallery showed images, and the
\* images are still there.
FailedBatchWitness ==
    last.op = "catchImages" /\ images # <<>> /\ error = ErrImages

\* the catalog fetch has failed as the code sees it: fetch() or json()
\* rejected, or the parsed body has no "message"
CatalogFetchFailed ==
    /\ catalogFetch # Pending
    /\ JsonRejects(catalogFetch) \/ ObjectKeysThrows(catalogFetch.body.message)

NonOkIsFailure ==
    /\ (catalogFetch # Pending /\ catalogFetch.kind = "http" /\ ~IsOk(catalogFetch))
          => (error # null /\ breeds = <<>>)
    /\ last.op = "setImages" =>
          \A i \in 1..Len(last.results) : IsOk(last.results[i])

\* C7: a toggle of name removes it from the selection if it is a member and
\* adds it (once) otherwise, the other members staying as they were and in
\* their order; a second toggle of the same name right after the first gives
\* back the members the selection had before the first.
ToggleTogglesMembership ==
    last.op = "toggle" =>
        LET name == last.breed
            others(arr) == SelectSeq(arr, LAMBDA x : x # name)
        IN /\ IF arrayIncludes(last.before, name)
              THEN ToSet(selectedBreeds) = ToSet(last.before) \ {name}
              ELSE /\ ToSet(selectedBreeds) = ToSet(last.before) \cup {name}
                   /\ Len(selectedBreeds) = Len(last.before) + 1
           /\ others(selectedBreeds) = others(last.before)
           /\ last.twice => ToSet(selectedBreeds) = ToSet(last.origin)

\* C7 witness: a breed was toggled off and on again next to another member.
ToggleTwiceWitness ==
    /\ last.op = "toggle" /\ last.twice
    /\ arrayIncludes(selectedBreeds, last.breed)
    /\ Len(selectedBreeds) >= 2

\* C8: right after a random load the selection is min(3, |catalog|) pairwise
\* distinct breeds of the catalog, whatever was selected before.
RandomSelectionIsSample ==
    last.op = "random" =>
        /\ Len(selectedBreeds) = Min(3, Len(breeds))
        /\ NoDuplicates(selectedBreeds)
        /\ ToSet(selectedBreeds) \subseteq ToSet(breeds)

\* C8 witness: a random load from a catalog of more than 3 breeds replaced a
\* selection holding a breed that was not drawn again.
RandomSelectionWitness ==
    /\ last.op = "random" /\ Len(breeds) > 3
    /\ \E x \in ToSet(last.before) : ~arrayIncludes(selectedBreeds, x)

\* C9: right after an invocation for selection S commits (every request
\* answered with 3 URLs), the gallery holds exactly 3 * |S| entries.
CommittedGalleryHasThreePerBreed ==
    last.op = "setImages" => Len(images) = 3 * Len(last.sel)

\* C9 witness: an invocation for two breeds or more has committed.
CommittedGalleryWitness ==
    last.op = "setImages" /\ Len(last.sel) >= 2

\* C10: the committed gallery is the concatenation, in the order of the
\* selection the invocation started with, of the URLs each breed's request
\* returned, every URL labelled with the breed it was requested for.
CommittedGalleryIsConcatenation ==
    last.op = "setImages" =>
        /\ breedLabels(images) =
              [k \in 1..(3 * Len(last.sel)) |-> last.sel[((k - 1) \div 3) + 1]]
        /\ \A k \in 1..Len(images) :
              images[k].url = [req |-> images[k].breed, gen |-> last.id,
                               n |-> ((k - 1) % 3) + 1]

\* C10 witness: an invocation for two breeds committed after the selection
\* had been replaced by another one of two breeds or more.
ConcatenationWitness ==
    /\ last.op = "setImages" /\ Len(last.sel) >= 2
    /\ last.sel # selectedBreeds
    /\ Len(selectedBreeds) >= 2

\* C11: a change of the search box changes the search term and nothing else:
\* the catalog, the selection, the gallery and the error stay as they were,
\* and no request is issued.
SearchChangesOnlyTerm ==
    [][last'.op = "search" =>
          /\ searchTerm' = toLowerCase(last'.value)
          /\ UNCHANGED <<breeds, selectedBreeds, images, error, catalogFetch,
                         inflight, nmut, nreq>>]_vars

\* C11 witness: the search box changed while breeds were selected, images
\* were shown and an invocation was in flight.
SearchWitness ==
    /\ last.op = "search" /\ searchTerm # <<>>
    /\ selectedBreeds # <<>> /\ images # <<>> /\ inflight # {}

\* C12: the error slot tells how the invocation that settled last ended: set
\* when it failed, clear when all its requests succeeded and it committed.
ErrorReflectsLastBatch ==
    /\ last.op = "catchImages" => error = ErrImages
    /\ last.op = "setImages" => error = null

\* C13: the catalog is requested once: after the answer to that request has
\* been handled, no step handles another one and no step changes the
\* catalog; the catalog changes only in the step that handles the answer.
CatalogLoadedOnce ==
    [][/\ catalogFetch # Pending => UNCHANGED <<catalogFetch, breeds>>
       /\ breeds' # breeds => (catalogFetch = Pending /\ last'.op = "fetchBreeds")]_vars

\* C13 witness: the catalog was loaded, and the selection changed twice and
\* an invocation committed after that.
CatalogLoadedWitness ==
    /\ catalogFetch # Pending /\ Len(breeds) >= 2
    /\ nmut >= 2 /\ last.op = "setImages"

\* C14: when a breed has been toggled twice in a row from a settled state
\* and the invocations have settled, the one started last committing last,
\* the gallery carries the breed labels it carried in that state, in the
\* same order.
DoubleToggleRestoresGallery ==
    (/\ pair.n = 2 /\ inflight = {}
     /\ last.op = "setImages" /\ last.id = nmut)
        => breedLabels(images) = tripled(pair.origin)

\* C15: a step that sets the selection to the empty array sets the gallery to
\* the empty array in the same step and issues no image request, whatever
\* the state before, invocations in flight included.
EmptySelectionClearsGallery ==
    [][(nmut' = nmut + 1 /\ selectedBreeds' = <<>>) =>
          /\ images' = <<>>
          /\ UNCHANGED <<inflight, nreq>>]_vars

\* C15 witness: the last breed was deselected while an earlier invocation was
\* still in flight, and the gallery is empty.
EmptySelectionWitness ==
    /\ last.op = "toggle" /\ last.before # <<>> /\ selectedBreeds = <<>>
    /\ inflight # {} /\ images = <<>> /\ nmut >= 2

\* C16: a step that sets the selection to a non-empty array S starts one
\* fetchImages invocation, which issues |S| requests at once: the i-th for 3
\* images of S[i]. Invocations already in flight stay in flight, and nothing
\* is skipped when S is the selection of an earlier invocation.
MutationIssuesOneRequestPerBreed ==
    [][(nmut' = nmut + 1 /\ selectedBreeds' # <<>>) =>
          \E b \in inflight' \ inflight :
             /\ inflight' = inflight \cup {b}
             /\ b.sel = selectedBreeds'
             /\ Len(b.req) = Len(selectedBreeds')
             /\ \A i \in 1..Len(b.req) :
                   b.req[i] = [breed |-> selectedBreeds'[i], count |-> 3]
             /\ nreq' = nreq + Len(selectedBreeds')]_vars

\* C16 witness: the second of two toggles of a breed restored the selection
\* [breed] while the invocation of the earlier, equal selection was still in
\* flight: two invocations for the same selection are in flight.
RepeatedSelectionWitness ==
    /\ last.op = "toggle" /\ last.twice /\ selectedBreeds # <<>>
    /\ \E b1, b2 \in inflight : b1.id # b2.id /\ b1.sel = b2.sel /\ b2.sel = selectedBreeds

\* the gallery made of all the answers to invocation b and of nothing else
wholeResult(b) ==
    [k \in 1..(3 * Len(b.sel)) |->
        [url |-> [req |-> b.sel[((k - 1) \div 3) + 1], gen |-> b.id, n |-> ((k - 1) % 3) + 1],
         breed |-> b.sel[((k - 1) \div 3) + 1]]]

\* C17: a step that changes the gallery either empties it or replaces it by
\* the whole result of one invocation that settles in that step with every
\* request answered successfully: never a part of a result, never entries of
\* two invocations, never while a request has failed.
GalleryReplacedWholesale ==
    [][images' # images =>
          \/ images' = <<>>
          \/ /\ \E b \in inflight \ inflight' : images' = wholeResult(b)
             /\ last'.op = "setImages"
             /\ \A i \in 1..Len(last'.results) : ~FetchFailed(last'.results[i])]_vars

\* C17 witness: the whole result of a two-breed invocation, not the first
\* one started, is shown while another invocation is in flight.
WholesaleWitness ==
    /\ last.op = "setImages" /\ Len(last.sel) >= 2
    /\ images = wholeResult([id |-> last.id, sel |-> last.sel])
    /\ inflight # {} /\ nmut >= 2 /\ last.id >= 2

\* t occurs in s as a run of consecutive elements
Contains(s, t) == \E i \in 1..(Len(s) - Len(t) + 1) : SubSeq(s, i, i + Len(t) - 1) = t

\* the index of x in the duplicate-free array arr
IndexOf(arr, x) == CHOOSE i \in 1..Len(arr) : arr[i] = x

\* C18: the breeds the picker shows are the breeds of the catalog whose
\* lower-cased name contains the lower-cased text of the search box, each
\* once and in the order of the catalog; with an empty text that is the
\* whole catalog; and "lab" against [affenpinscher, labrador] shows
\* [labrador].
PickerShowsMatchingBreeds ==
    LET visible == filteredBreeds(breeds, searchTerm)
        affenpinscher == <<97, 102, 102, 101, 110, 112, 105, 110, 115, 99, 104, 101, 114>>
        labrador == <<108, 97, 98, 114, 97, 100, 111, 114>>
        lab == <<108, 97, 98>>
    IN /\ last.op = "search" => searchTerm = toLowerCase(last.value)
       /\ ToSet(visible) = {b \in ToSet(breeds) : Contains(toLowerCase(b), toLowerCase(searchTerm))}
       /\ NoDuplicates(visible)
       /\ \A i, j \in 1..Len(visible) :
             i < j => IndexOf(breeds, visible[i]) < IndexOf(breeds, visible[j])
       /\ searchTerm = <<>> => visible = breeds
       /\ filteredBreeds(<<affenpinscher, labrador>>, toLowerCase(lab)) = <<labrador>>
       /\ filteredBreeds(<<affenpinscher, labrador>>, <<>>) = <<affenpinscher, labrador>>

\* C18 witness: a text with a capital letter was typed and the picker shows
\* one breed, spelled with a capital, of a catalog of three or more.
PickerWitness ==
    /\ last.op = "search" /\ last.value # searchTerm
    /\ Len(breeds) >= 3
    /\ Len(filteredBreeds(breeds, searchTerm)) = 1
    /\ filteredBreeds(breeds, searchTerm)[1] # toLowerCase(filteredBreeds(breeds, searchTerm)[1])

\* C19: in every state the selection holds no breed twice and only breeds of
\* the catalog, whatever toggles (of breeds the picker shows) and random
\* loads have run, before or after the catalog was loaded.
SelectionIsDuplicateFreeSubsetOfCatalog ==
    /\ NoDuplicates(selectedBreeds)
    /\ \A i \in 1..Len(selectedBreeds) : arrayIncludes(breeds, selectedBreeds[i])

\* C19 witness: a toggle, not the first change of the selection, added a
\* breed to a non-empty selection.
SelectionWitness ==
    /\ last.op = "toggle" /\ nmut >= 2 /\ Len(selectedBreeds) >= 2
    /\ arrayIncludes(selectedBreeds, last.breed)
    /\ Len(last.before) >= 1

\* invocation id settles: its Promise.all fulfils or rejects and fetchImages
\* resumes
Settles(id) ==
    \E b \in inflight :
       /\ b.id = id
       /\ \/ \E results \in AnswersFrom(b, 1) : FetchImagesFulfils(b, results)
          \/ \E j \in 1..Len(b.req) :
                \E r \in ImageResponses(b.req[j].breed, b.id) : FetchImagesRejects(b, j, r)

\* the program when every request is answered in the end
FairSpec == Spec /\ \A id \in 1..MaxMutations : WF_vars(Settles(id))

\* with the error set, the handlers of the three controls can run
HandlersEnabled ==
    /\ \A value \in SearchInputs : ENABLED handleSearch(value)
    /\ \A breed \in ToSet(filteredBreeds(breeds, searchTerm)) :
          WithinBounds(handleBreedSelection(selectedBreeds, breed)) => ENABLED ToggleBreed(breed)
    /\ \A s \in loadRandomBreeds(breeds) : WithinBounds(s) => ENABLED LoadRandomBreeds(s)

\* the answers to invocation b when every request succeeds
allSucceed(b) ==
    [i \in 1..Len(b.req) |-> Http(200, Json(MsgArray(urlsFor(b.req[i].breed, b.id, 3))))]

\* C20: while the error is set (by the catalog fetch or by an invocation)
\* the search box, the checkboxes and the random button still work, and for
\* every invocation in flight, so also for the one started by a change of the
\* selection made while the error is set, the step in which all its requests
\* succeed can be taken and commits its whole result to the gallery.
ErrorLeavesControllerEnabled ==
    error # null =>
        /\ HandlersEnabled
        /\ \A b \in inflight :
              ENABLED (FetchImagesFulfils(b, allSucceed(b)) /\ images' = wholeResult(b))

\* C20 witness: with the error of a failed invocation set, a change of the
\* selection has started an invocation, which is in flight.
ErrorThenMutationWitness ==
    /\ error = ErrImages /\ last.op \in {"toggle", "random"}
    /\ \E b \in inflight : b.id = nmut /\ Len(b.sel) >= 2

\* under FairSpec, the invocation started by a change of the selection made
\* while the error is set settles in the end: it commits its whole result,
\* or a request of it failed
MutationAfterErrorSettles ==
    \A id \in 1..MaxMutations :
       (/\ error # null /\ nmut = id /\ last.op \in {"toggle", "random"}
        /\ selectedBreeds # <<>>)
          ~> (/\ last.op \in {"setImages", "catchImages"} /\ last.id = id
              /\ last.op = "setImages" =>
                    images = wholeResult([id |-> id, sel |-> last.sel]))

====
